---- MODULE Spec2Model ----
(***************************************************************************)
(* Model of the voice chat widget (src/unnamed/part_001, VoiceChat).       *)
(*                                                                         *)
(* The widget is a React function component.  Its state is of two kinds:   *)
(*   - React state (isOpen, isRecording, isConnected, isHandsFree,         *)
(*     messages, inputText).  A function defined in the component body     *)
(*     reads the values of the render in which it was created; a handler   *)
(*     the user triggers belongs to the latest render, while a callback    *)
(*     kept by a timer, a promise or an animation frame keeps the values   *)
(*     of the render that created it.  Such captured values are stored in  *)
(*     the record of the pending callback.                                 *)
(*   - refs (websocketRef, audioQueueRef, ...), read and written in place. *)
(***************************************************************************)
EXTENDS Integers, Sequences, FiniteSets, TLC

\* ------------------------------------------------------------------ bounds
MaxClips == 3      \* clips ever enqueued
MaxSockets == 2    \* sockets ever created
MaxFrames == 2     \* inbound frames ever dispatched
MaxSends == 2      \* text send requests
MaxSessions == 2   \* calls of startRecording
MaxChunks == 1     \* audio frames buffered by one recorder
MaxCount == 2      \* where the history counters saturate
MaxAdds == 4       \* calls of addMessage when it is driven on its own
ClockStep == 350   \* milliseconds by which the clock advances in one step

\* ------------------------------------------------------- program constants
SilenceMs == 600   \* the silence that ends an utterance (part_001:312)

\* ------------------------------------------------------------------- state
VARIABLES
    mounted,          \* the component is mounted: its effect cleanup has not run (part_001:25-35)
    isOpen,           \* React state (part_001:6)
    isRecording,      \* React state (part_001:7)
    isConnected,      \* React state (part_001:8)
    isHandsFree,      \* React state (part_001:9)
    messages,         \* React state, the transcript (part_001:10)
    inputText,        \* React state (part_001:11)
    websocketRef,     \* the socket held, 0 for null (part_001:13)
    sockets,          \* per socket ever created: its readyState
    nFrames,          \* inbound frames dispatched so far
    sendReq,          \* per send request: its text, the render values its 500ms
                      \* retry timer keeps (part_001:222), and its history
    mediaRecorderRef, \* the capture session whose recorder is held, 0 for null (part_001:14)
    audioContextRef,  \* the session whose AudioContext is held (part_001:15)
    analyserRef,      \* the session whose analyser is held (part_001:18)
    animationFrameRef,\* the session whose draw loop issued the frame handle held (part_001:17)
    silenceStartRef,  \* -1 for null, else the age Date.now() - silenceStartRef.current
    sessions,         \* per call of startRecording: render values, stream, recorder, loop
    restartTimers,    \* the 100ms timers of the end-of-utterance restart (part_001:318)
    turn,             \* history of the sampling ticks taken in hands-free mode, and of the last toggle
    lastAdd,          \* history: the direct calls of addMessage counted, and the last one's arguments
    stopMark          \* history: clips enqueued before the last stopAudioPlayback, -1 if none

\* ------------------------------------------------------------ Playback Queue
VARIABLES
    audioQueueRef,    \* pending clips, by clip number (part_001:171)
    isPlayingRef,     \* the busy flag (part_001:172)
    currentAudioRef,  \* the clip held as current, 0 for null (part_001:173)
    audioEl,          \* per clip, in order of enqueue: the state of its blob / Audio element
    playOrder         \* history: the clips in the order processQueue started them

pbVars == <<audioQueueRef, isPlayingRef, currentAudioRef, audioEl, playOrder>>

uiVars == <<isOpen, isHandsFree, inputText>>
connVars == <<websocketRef, sockets, isConnected>>

capVars == <<mediaRecorderRef, audioContextRef, analyserRef, animationFrameRef,
             silenceStartRef, sessions, restartTimers, turn>>

vars == <<mounted, isOpen, isRecording, isConnected, isHandsFree, messages, inputText,
          websocketRef, sockets, nFrames, sendReq,
          mediaRecorderRef, audioContextRef, analyserRef, animationFrameRef,
          silenceStartRef, sessions, restartTimers, turn, lastAdd,
          audioQueueRef, isPlayingRef, currentAudioRef, audioEl, playOrder, stopMark>>

Range(s) == {s[i] : i \in DOMAIN s}

\* The value a React state setter leaves: an update of an unmounted component
\* is dropped.
Kept(old, new) == IF mounted THEN new ELSE old

\* The states of a clip.
\*   blob      enqueued, no Audio element yet
\*   dropped   removed from the queue by stopAudioPlayback, never played
\*   starting  audio.play() called, its promise pending
\*   playing   play() resolved, the clip sounds
\*   ending    playback reached the end, the ended event is queued
\*   ended     audio.onended has run
\*   failed    play() rejected before playback began, the catch block has run
\*   aborting  pause() hit the element while play() was pending: the
\*             AbortError rejection of the promise is queued
\*   aborted   that rejection has reached the catch block
\*   paused    pause() hit the element while it sounded: no further callback
\*   errored   the clip failed after playback began (error event, no handler)
ClipStates == {"blob", "dropped", "starting", "playing", "ending", "ended",
               "failed", "aborting", "aborted", "paused", "errored"}

\* The refs of the Playback Queue as one value, so that the handlers compose.
PB == [q |-> audioQueueRef, busy |-> isPlayingRef, cur |-> currentAudioRef,
       el |-> audioEl, order |-> playOrder]

\* processQueue with the head of the queue taken from the wrong end.
processQueueLifo(p) ==
    IF p.busy \/ Len(p.q) = 0 THEN p
    ELSE LET c == p.q[Len(p.q)] IN
         [p EXCEPT !.busy = TRUE, !.q = SubSeq(p.q, 1, Len(p.q) - 1),
                   !.el[c] = "starting", !.cur = c, !.order = Append(@, c)]

\* processQueue, up to its await: the guard, the shift, new Audio, play().
processQueue(p) ==
    IF p.busy \/ Len(p.q) = 0 THEN p
    ELSE LET c == Head(p.q) IN
         [p EXCEPT !.busy = TRUE, !.q = Tail(p.q),
                   !.el[c] = "starting", !.cur = c, !.order = Append(@, c)]

playAudioResponse(p) ==
    processQueue([p EXCEPT !.q = Append(@, Len(p.el) + 1), !.el = Append(@, "blob")])

\* HTMLMediaElement.pause() on an element in state st.
Pause(st) ==
    CASE st = "starting" -> "aborting"
      [] st = "playing"  -> "paused"
      [] OTHER           -> st

stopAudioPlayback(p) ==
    [p EXCEPT !.q = <<>>,
              !.el = [c \in DOMAIN p.el |->
                        IF c \in Range(p.q) THEN "dropped"
                        ELSE IF c = p.cur THEN Pause(p.el[c])
                        ELSE p.el[c]],
              !.cur = 0,
              !.busy = FALSE]

\* audio.onended of clip c.
audioOnEnded(p, c) ==
    processQueue([p EXCEPT !.el[c] = "ended", !.busy = FALSE, !.cur = 0])

\* The catch block of processQueue, for the play() promise of clip c.
playCatch(p, c) ==
    processQueue([p EXCEPT !.el[c] = IF @ = "aborting" THEN "aborted" ELSE "failed",
                           !.busy = FALSE])

SetPB(p) ==
    /\ audioQueueRef' = p.q
    /\ isPlayingRef' = p.busy
    /\ currentAudioRef' = p.cur
    /\ audioEl' = p.el
    /\ playOrder' = p.order

\* ------------------------------------------------------------- Transcript
\* A string is a sequence of tokens; " " is the token for one space.
SP == " "

\* An absent field of a parsed frame (JavaScript's undefined).
Undefined == <<"#undefined">>

\* String conversion in a concatenation: undefined reads "undefined".
Str(t) == IF t = Undefined THEN <<"undefined">> ELSE t

\* JavaScript truthiness of a text value: absent and "" are falsy.
Truthy(t) == t # Undefined /\ t # <<>>

RECURSIVE TrimLeft(_)
TrimLeft(t) == IF t # <<>> /\ Head(t) = SP THEN TrimLeft(Tail(t)) ELSE t

RECURSIVE TrimRight(_)
TrimRight(t) ==
    IF t # <<>> /\ t[Len(t)] = SP THEN TrimRight(SubSeq(t, 1, Len(t) - 1)) ELSE t

\* String.prototype.trim
Trim(t) == TrimRight(TrimLeft(t))

\* addMessage that never merges: every call adds an entry.
addMessageNoMerge(prev, sender, text) ==
    Append(prev, [sender |-> sender, text |-> text])

\* addMessage merging whenever the sender repeats, system included.
addMessageMergeAll(prev, sender, text) ==
    IF Len(prev) > 0 /\ prev[Len(prev)].sender = sender
    THEN [prev EXCEPT ![Len(prev)].text = Str(@) \o <<SP>> \o Str(text)]
    ELSE Append(prev, [sender |-> sender, text |-> text])

\* addMessage's updater applied to the transcript prev.  The time field of a
\* message is written once and read by nothing; it is left out.
addMessage(prev, sender, text) ==
    IF Len(prev) > 0 /\ prev[Len(prev)].sender = sender /\ sender # "system"
    THEN [prev EXCEPT ![Len(prev)].text = Str(@) \o <<SP>> \o Str(text)]
    ELSE Append(prev, [sender |-> sender, text |-> text])

\* ------------------------------------------------------- Connection Manager
ReadyStates == {"CONNECTING", "OPEN", "CLOSING", "CLOSED"}

CN == [ref |-> websocketRef, socks |-> sockets]

ReadyState(c) == IF c.ref = 0 THEN "none" ELSE c.socks[c.ref]

\* connectWebSocket with a guard that forgets the socket still opening.
connectWebSocketOpenOnly(c) ==
    IF ReadyState(c) = "OPEN" THEN c
    ELSE [ref |-> Len(c.socks) + 1, socks |-> Append(c.socks, "CONNECTING")]

\* connectWebSocket
connectWebSocket(c) ==
    IF ReadyState(c) \in {"OPEN", "CONNECTING"} THEN c
    ELSE [ref |-> Len(c.socks) + 1, socks |-> Append(c.socks, "CONNECTING")]

\* A call of connectWebSocket that stays within the bound on sockets.
WithinSockets(c) == Len(connectWebSocket(c).socks) <= MaxSockets

SetCN(c) ==
    /\ websocketRef' = c.ref
    /\ sockets' = c.socks

\* ------------------------------------------------------------ inbound frames
\* A textual frame that parses as a JSON object: its audio field (absent,
\* base64, or a string atob rejects), its text field and its type field.
JsonFrames ==
    [kind : {"json"},
     audio : {"absent", "b64", "notb64"},
     text : {Undefined, <<>>, <<"hi">>},
     type : {"absent", "transcript", "text_response", "other"}]

\* A binary frame; a textual frame that is not JSON.
Frames == JsonFrames \cup {[kind |-> "blob"], [kind |-> "raw"]}

\* event.data of a textual frame, as a string.
Payload(f) == <<ToString(f)>>

CarriesClip(f) == f.kind = "blob" \/ (f.kind = "json" /\ f.audio = "b64")

\* Classify without the test of type on its first branch.
ClassifyTextFirst(f) ==
    IF Truthy(f.text) THEN [sender |-> "agent", text |-> f.text]
    ELSE IF f.type = "transcript" THEN [sender |-> "user", text |-> f.text]
    ELSE IF f.type = "text_response" THEN [sender |-> "agent", text |-> f.text]
    ELSE [sender |-> "none", text |-> Undefined]

\* The sender and text ws.onmessage passes to addMessage for a parsed frame,
\* or "none" when it adds nothing (the if / else if chain of lines 81-87).
Classify(f) ==
    IF Truthy(f.text) /\ f.type # "transcript" THEN [sender |-> "agent", text |-> f.text]
    ELSE IF f.type = "transcript" THEN [sender |-> "user", text |-> f.text]
    ELSE IF f.type = "text_response" THEN [sender |-> "agent", text |-> f.text]
    ELSE [sender |-> "none", text |-> Undefined]

\* onMessageTranscript putting the text of a frame before what is there.
onMessageTranscriptFront(prev, f) ==
    CASE f.kind = "blob" -> prev
      [] f.kind = "raw" -> <<[sender |-> "agent", text |-> Payload(f)]>> \o prev
      [] f.kind = "json" /\ f.audio = "notb64" ->
            <<[sender |-> "agent", text |-> Payload(f)]>> \o prev
      [] OTHER -> IF Classify(f).sender = "none" THEN prev
                  ELSE <<[sender |-> Classify(f).sender, text |-> Classify(f).text]>> \o prev

\* onMessageTranscript with a catch block that swallows the failure.
onMessageTranscriptSwallow(prev, f) ==
    CASE f.kind = "blob" -> prev
      [] f.kind = "raw" -> prev
      [] f.kind = "json" /\ f.audio = "notb64" -> prev
      [] OTHER -> IF Classify(f).sender = "none" THEN prev
                  ELSE addMessage(prev, Classify(f).sender, Classify(f).text)

\* The transcript after ws.onmessage has handled frame f.
onMessageTranscript(prev, f) ==
    CASE f.kind = "blob" -> prev
      [] f.kind = "raw" -> addMessage(prev, "agent", Payload(f))
      [] f.kind = "json" /\ f.audio = "notb64" -> addMessage(prev, "agent", Payload(f))
      [] OTHER -> IF Classify(f).sender = "none" THEN prev
                  ELSE addMessage(prev, Classify(f).sender, Classify(f).text)

\* ----------------------------------------------- Capture Pipeline and VAD
Sat(n) == IF n < MaxCount THEN n + 1 ELSE MaxCount

\* Ages stop growing once they are past every threshold.
AgeCap == SilenceMs + ClockStep
Older(a) == IF a < 0 THEN a ELSE IF a + ClockStep > AgeCap THEN AgeCap ELSE a + ClockStep

NoTurn == [heard |-> FALSE, quiet |-> -1, overdue |-> FALSE, vadStops |-> 0,
           restarts |-> 0, onsets |-> 0, stopAlls |-> 0, interrupts |-> 0,
           off |-> FALSE]

\* What a sampling tick or stopRecording may touch, as one value; thrown tells
\* that the handler ended in an exception.
W == [sess |-> sessions, recRef |-> mediaRecorderRef, af |-> animationFrameRef,
      sil |-> silenceStartRef, isRec |-> isRecording, pb |-> PB, mark |-> stopMark,
      timers |-> restartTimers, turn |-> turn, thrown |-> FALSE]

\* stopRecording without the test of isRecording.
stopRecordingUnguarded(w, clRecording) ==
    IF w.recRef # 0
    THEN IF w.sess[w.recRef].rec # "recording" THEN [w EXCEPT !.thrown = TRUE]
         ELSE LET s1 == [w.sess EXCEPT ![w.recRef].rec = "stopping",
                                       ![w.recRef].stream = FALSE]
                  s2 == IF w.af # 0 THEN [s1 EXCEPT ![w.af].loop = FALSE] ELSE s1
              IN [w EXCEPT !.sess = s2, !.isRec = FALSE]
    ELSE w

\* stopRecording, called by a function that read isRecording as clRecording.
\* MediaRecorder.stop() on a recorder that is not recording ends the handler.
stopRecording(w, clRecording) ==
    IF w.recRef # 0 /\ clRecording
    THEN IF w.sess[w.recRef].rec # "recording" THEN [w EXCEPT !.thrown = TRUE]
         ELSE LET s1 == [w.sess EXCEPT ![w.recRef].rec = "stopping",
                                       ![w.recRef].stream = FALSE]
                  s2 == IF w.af # 0 THEN [s1 EXCEPT ![w.af].loop = FALSE] ELSE s1
              IN [w EXCEPT !.sess = s2, !.isRec = FALSE]
    ELSE w

\* History of the samples: what a tick of the loop of session s saw, for a
\* capture that was started in hands-free mode, is recording, and is still in
\* that mode (hfNow and w.isRec are the mode and the recording state now).
Sampled(w, s, hfNow, avg) ==
    IF ~(hfNow /\ w.isRec /\ w.sess[s].cl.isHandsFree /\ w.sess[s].rec = "recording")
    THEN [w.turn EXCEPT !.heard = FALSE, !.quiet = -1]
    ELSE IF avg = "loud"
    THEN [w.turn EXCEPT !.heard = TRUE, !.quiet = -1, !.overdue = FALSE,
                        !.vadStops = 0, !.restarts = 0,
                        !.onsets = IF Len(w.pb.q) > 0 \/ w.pb.busy THEN Sat(@) ELSE @]
    ELSE [w.turn EXCEPT !.quiet = IF w.turn.heard /\ @ = -1 THEN 0 ELSE @,
                        !.overdue = @ \/ w.turn.quiet > SilenceMs]

\* The barge-in branch of draw (lines 302-307); rs is the readyState of the
\* socket held.  send throws on no socket and on a socket still connecting,
\* and discards the frame on a socket closing or closed.
bargeIn(w, rs) ==
    IF Len(w.pb.q) > 0 \/ w.pb.busy
    THEN [w EXCEPT !.pb = stopAudioPlayback(w.pb),
                   !.mark = Len(w.pb.el),
                   !.turn.stopAlls = Sat(@),
                   !.turn.interrupts = IF rs = "OPEN" THEN Sat(@) ELSE @,
                   !.thrown = rs \in {"none", "CONNECTING"}]
    ELSE w

\* The silence branch of draw (lines 310-319), in a draw whose render values are cl.
silence(w, cl) ==
    IF w.sil = -1 THEN [w EXCEPT !.sil = 0]
    ELSE IF w.sil > SilenceMs
    THEN LET w1 == stopRecording(w, cl.isRecording) IN
         IF w1.thrown THEN w1
         ELSE [w1 EXCEPT !.sil = -1, !.timers = Append(@, cl),
                         !.turn.vadStops = Sat(@)]
    ELSE w

\* draw with its guard reading the mode and the recording state as they are
\* at the tick, not as the render that called startRecording saw them.
drawLive(w, s, avg, hfNow, rs) ==
    LET cl == w.sess[s].cl
        w1 == [w EXCEPT !.af = s, !.sess[s].loop = TRUE, !.turn = Sampled(w, s, hfNow, avg)]
    IN IF hfNow /\ w.isRec
       THEN IF avg = "loud" THEN bargeIn([w1 EXCEPT !.sil = -1], rs)
            ELSE silence(w1, cl)
       ELSE w1

\* draw with its voice-activity logic run on every tick and a loud sample
\* that leaves the silence timer as it is.
drawNoReset(w, s, avg, hfNow, rs) ==
    LET cl == w.sess[s].cl
        w1 == [w EXCEPT !.af = s, !.sess[s].loop = TRUE, !.turn = Sampled(w, s, hfNow, avg)]
    IN IF avg = "loud" THEN bargeIn(w1, rs)
       ELSE silence(w1, cl)

\* draw running its voice-activity logic whatever the mode.
drawAlways(w, s, avg, hfNow, rs) ==
    LET cl == w.sess[s].cl
        w1 == [w EXCEPT !.af = s, !.sess[s].loop = TRUE, !.turn = Sampled(w, s, hfNow, avg)]
    IN IF avg = "loud" THEN bargeIn([w1 EXCEPT !.sil = -1], rs)
       ELSE silence(w1, cl)

\* One call of draw by the loop of session s, with the energy avg of the
\* sample: "loud" for average > 25, "quiet" otherwise.  The function reads
\* isHandsFree and isRecording of the render that called startRecording.
draw(w, s, avg, hfNow, rs) ==
    LET cl == w.sess[s].cl
        w1 == [w EXCEPT !.af = s, !.sess[s].loop = TRUE, !.turn = Sampled(w, s, hfNow, avg)]
    IN IF cl.isHandsFree /\ cl.isRecording
       THEN IF avg = "loud" THEN bargeIn([w1 EXCEPT !.sil = -1], rs)
            ELSE silence(w1, cl)
       ELSE w1

SetW(w) ==
    /\ sessions' = w.sess
    /\ mediaRecorderRef' = w.recRef
    /\ animationFrameRef' = w.af
    /\ silenceStartRef' = w.sil
    /\ isRecording' = Kept(isRecording, w.isRec)
    /\ SetPB(w.pb)
    /\ stopMark' = w.mark
    /\ restartTimers' = w.timers
    /\ turn' = w.turn

\* The render values a call of startRecording keeps.
Closure == [isHandsFree |-> isHandsFree, isRecording |-> isRecording,
            isConnected |-> isConnected]

\* A call of startRecording: the render values it keeps (cl), where it stands
\* (st), whether its device stream is live (stream), whether its AudioContext
\* exists and is not closed (ctx), its recorder (rec) and buffer (chunks),
\* whether a frame of its draw loop is scheduled (loop), the frames it sent.
NewSession(cl) == [cl |-> cl, st |-> "acquiring", stream |-> FALSE, ctx |-> FALSE,
                   rec |-> "none", chunks |-> 0, loop |-> FALSE, sent |-> 0]

\* startRecording up to its await, started without regard to other sessions.
startRecording(c, sess, cl) ==
    [cn |-> IF ~cl.isConnected THEN connectWebSocket(c) ELSE c,
     sess |-> Append(sess, NewSession(cl))]

ListeningText(cl) ==
    IF cl.isHandsFree THEN <<"Hands-free mode active. Listening...">> ELSE <<"Listening...">>

\* ------------------------------------------------------------------- actions
Init ==
    /\ mounted = TRUE
    /\ isOpen = FALSE
    /\ isRecording = FALSE
    /\ isConnected = FALSE
    /\ isHandsFree = FALSE
    /\ messages = <<>>
    /\ inputText = <<>>
    /\ websocketRef = 0
    /\ sockets = <<>>
    /\ nFrames = 0
    /\ sendReq = <<>>
    /\ mediaRecorderRef = 0
    /\ audioContextRef = 0
    /\ analyserRef = 0
    /\ animationFrameRef = 0
    /\ silenceStartRef = -1
    /\ sessions = <<>>
    /\ restartTimers = <<>>
    /\ turn = NoTurn
    /\ lastAdd = [n |-> 0, sender |-> "none", text |-> <<>>]
    /\ audioQueueRef = <<>>
    /\ isPlayingRef = FALSE
    /\ currentAudioRef = 0
    /\ audioEl = <<>>
    /\ playOrder = <<>>
    /\ stopMark = -1

Clips == DOMAIN audioEl
Sockets == DOMAIN sockets
Sessions == DOMAIN sessions

sendVars == <<nFrames, sendReq, lastAdd>>
playVars == <<pbVars, stopMark>>

\* The object URLs created (line 180, when processQueue starts a clip) and not
\* revoked: URL.revokeObjectURL is called in audio.onended alone (line 185).
ObjectUrls == {c \in Clips : c \in Range(playOrder) /\ audioEl[c] # "ended"}

\* ---- user interface
\* toggleChat, from the floating button (shown while the panel is closed).
ToggleChat ==
    /\ mounted
    /\ ~isOpen
    /\ isOpen' = TRUE
    /\ IF ~isConnected
       THEN WithinSockets(CN) /\ SetCN(connectWebSocket(CN))
       ELSE UNCHANGED <<websocketRef, sockets>>
    /\ UNCHANGED <<mounted, isRecording, isConnected, isHandsFree, messages, inputText,
                   sendVars, capVars, playVars>>

\* The X button of the panel.
CloseChat ==
    /\ mounted
    /\ isOpen
    /\ isOpen' = FALSE
    /\ UNCHANGED <<mounted, isRecording, isConnected, isHandsFree, messages, inputText,
                   websocketRef, sockets, sendVars, capVars, playVars>>

\* The headphones button of the panel.
ToggleHandsFree ==
    /\ mounted
    /\ isOpen
    /\ isHandsFree' = ~isHandsFree
    /\ UNCHANGED <<mounted, isOpen, isRecording, isConnected, messages, inputText,
                   websocketRef, sockets, sendVars, capVars, playVars>>

InputTexts == {<<SP>>, <<"a">>}

\* Typing into the input, which is disabled while recording outside hands-free mode.
SetInputText(t) ==
    /\ mounted
    /\ isOpen
    /\ ~(isRecording /\ ~isHandsFree)
    /\ t # inputText
    /\ inputText' = t
    /\ UNCHANGED <<mounted, isOpen, isRecording, isConnected, isHandsFree, messages,
                   websocketRef, sockets, sendVars, capVars, playVars>>

\* WebSocket.close() on a socket in readyState st.
Close(st) == IF st \in {"CONNECTING", "OPEN"} THEN "CLOSING" ELSE st

\* The cleanup of the mount effect (lines 26-34).  Its stopRecording is the
\* one of the first render, which read isRecording as false.
Unmount ==
    /\ mounted
    /\ mounted' = FALSE
    /\ LET w == stopRecording(W, FALSE)
           s1 == IF w.af # 0 THEN [w.sess EXCEPT ![w.af].loop = FALSE] ELSE w.sess
       IN SetW([w EXCEPT !.sess = s1])
    /\ sockets' = IF websocketRef # 0
                  THEN [sockets EXCEPT ![websocketRef] = Close(@)]
                  ELSE sockets
    /\ UNCHANGED <<isOpen, isConnected, isHandsFree, messages, inputText, websocketRef,
                   sendVars, audioContextRef, analyserRef>>

\* ---- socket events
\* ws.onopen of socket s.
WsOnOpen(s) ==
    /\ sockets[s] = "CONNECTING"
    /\ sockets' = [sockets EXCEPT ![s] = "OPEN"]
    /\ isConnected' = Kept(isConnected, TRUE)
    /\ messages' = Kept(messages, addMessage(messages, "system",
                                              <<"Connected to Banking Assistant">>))
    /\ UNCHANGED <<mounted, isOpen, isRecording, isHandsFree, inputText, websocketRef,
                   sendVars, capVars, playVars>>

\* The closing handshake of socket s starts: readyState turns CLOSING before
\* the close event is dispatched.
WsClosing(s) ==
    /\ sockets[s] = "OPEN"
    /\ sockets' = [sockets EXCEPT ![s] = "CLOSING"]
    /\ UNCHANGED <<mounted, isOpen, isRecording, isConnected, isHandsFree, messages, inputText,
                   websocketRef, sendVars, capVars, playVars>>

\* ws.onclose that flips the flags and reports nothing.
WsOnCloseSilent(s) ==
    /\ sockets[s] \in {"CONNECTING", "OPEN", "CLOSING"}
    /\ sockets' = [sockets EXCEPT ![s] = "CLOSED"]
    /\ isConnected' = Kept(isConnected, FALSE)
    /\ isRecording' = Kept(isRecording, FALSE)
    /\ UNCHANGED <<mounted, isOpen, isHandsFree, messages, inputText, websocketRef,
                   sendVars, capVars, playVars>>

\* ws.onclose of socket s: the connection failed, dropped, or finished closing.
WsOnClose(s) ==
    /\ sockets[s] \in {"CONNECTING", "OPEN", "CLOSING"}
    /\ sockets' = [sockets EXCEPT ![s] = "CLOSED"]
    /\ isConnected' = Kept(isConnected, FALSE)
    /\ isRecording' = Kept(isRecording, FALSE)
    /\ messages' = Kept(messages, addMessage(messages, "system", <<"Disconnected">>))
    /\ UNCHANGED <<mounted, isOpen, isHandsFree, inputText, websocketRef,
                   sendVars, capVars, playVars>>

\* ws.onmessage of socket s with frame f.
WsOnMessage(s, f) ==
    /\ sockets[s] = "OPEN"
    /\ nFrames < MaxFrames
    /\ nFrames' = nFrames + 1
    /\ IF CarriesClip(f)
       THEN Len(audioEl) < MaxClips /\ SetPB(playAudioResponse(PB))
       ELSE UNCHANGED pbVars
    /\ messages' = Kept(messages, onMessageTranscript(messages, f))
    /\ UNCHANGED <<mounted, isOpen, isRecording, isConnected, isHandsFree, inputText,
                   websocketRef, sockets, sendReq, lastAdd, capVars, stopMark>>

\* ---- text sends
\* handleSendMessage adding the user message before it looks at the connection.
handleSendMessageEcho(c, msgs, input, text, conn) ==
    LET c1 == IF ~conn THEN connectWebSocket(c) ELSE c IN
    IF ReadyState(c1) # "OPEN"
    THEN [cn |-> c1, msgs |-> addMessage(msgs, "user", text), input |-> input,
          sent |-> FALSE]
    ELSE [cn |-> c1, msgs |-> addMessage(msgs, "user", text), input |-> <<>>,
          sent |-> TRUE]

\* handleSendMessage past its first guard, with the inputText (text) and
\* isConnected (conn) of the render it belongs to: the connection, transcript
\* and input it leaves, and whether it sent the frame.
handleSendMessage(c, msgs, input, text, conn) ==
    LET c1 == IF ~conn THEN connectWebSocket(c) ELSE c IN
    IF ReadyState(c1) # "OPEN"
    THEN [cn |-> c1, msgs |-> msgs, input |-> input, sent |-> FALSE]
    ELSE [cn |-> c1, msgs |-> addMessage(msgs, "user", text), input |-> <<>>,
          sent |-> TRUE]

Bit(b) == IF b THEN 1 ELSE 0

\* handleSendMessage from the Send button or the Enter key.
SendClick ==
    /\ mounted
    /\ isOpen
    /\ IF Trim(inputText) = <<>>
       THEN UNCHANGED <<websocketRef, sockets, messages, inputText, sendReq>>
       ELSE LET r == handleSendMessage(CN, messages, inputText, inputText, isConnected) IN
            /\ Len(r.cn.socks) <= MaxSockets
            /\ Len(sendReq) < MaxSends
            /\ SetCN(r.cn)
            /\ messages' = r.msgs
            /\ inputText' = r.input
            /\ sendReq' = Append(sendReq, [text |-> inputText, conn |-> isConnected,
                                           waited |-> ~r.sent, timer |-> ~r.sent,
                                           sent |-> Bit(r.sent),
                                           echo |-> Bit(r.msgs # messages)])
    /\ UNCHANGED <<mounted, isOpen, isRecording, isConnected, isHandsFree, nFrames, lastAdd,
                   capVars, playVars>>

\* The retry that gives up when the connection is still not open.
SendRetryOnce(i) ==
    /\ i \in DOMAIN sendReq
    /\ sendReq[i].timer
    /\ LET r == handleSendMessage(CN, messages, inputText, sendReq[i].text, sendReq[i].conn) IN
       /\ Len(r.cn.socks) <= MaxSockets
       /\ SetCN(r.cn)
       /\ messages' = Kept(messages, r.msgs)
       /\ inputText' = Kept(inputText, r.input)
       /\ sendReq' = [sendReq EXCEPT ![i].timer = FALSE,
                                     ![i].sent = @ + Bit(r.sent),
                                     ![i].echo = @ + Bit(r.msgs # messages)]
    /\ UNCHANGED <<mounted, isOpen, isRecording, isConnected, isHandsFree, nFrames, lastAdd,
                   capVars, playVars>>

\* The 500ms timer of send request i fires: handleSendMessage of the render
\* that set the timer.
SendRetry(i) ==
    /\ i \in DOMAIN sendReq
    /\ sendReq[i].timer
    /\ LET r == handleSendMessage(CN, messages, inputText, sendReq[i].text, sendReq[i].conn) IN
       /\ Len(r.cn.socks) <= MaxSockets
       /\ SetCN(r.cn)
       /\ messages' = Kept(messages, r.msgs)
       /\ inputText' = Kept(inputText, r.input)
       /\ sendReq' = [sendReq EXCEPT ![i].timer = ~r.sent,
                                     ![i].sent = @ + Bit(r.sent),
                                     ![i].echo = @ + Bit(r.msgs # messages)]
    /\ UNCHANGED <<mounted, isOpen, isRecording, isConnected, isHandsFree, nFrames, lastAdd,
                   capVars, playVars>>

\* ---- capture
\* toggleRecording, from the microphone button of the panel.
ToggleRecording ==
    /\ mounted
    /\ isOpen
    /\ IF isRecording
       THEN /\ LET w == stopRecording(W, isRecording) IN
                   \* history: the user's last toggle turned the recording off
                   SetW([w EXCEPT !.turn.off = ~w.isRec])
            /\ UNCHANGED <<websocketRef, sockets>>
       ELSE LET r == startRecording(CN, sessions, Closure) IN
            /\ Len(sessions) < MaxSessions
            /\ Len(r.cn.socks) <= MaxSockets
            /\ SetCN(r.cn)
            /\ sessions' = r.sess
            /\ turn' = [turn EXCEPT !.off = FALSE]
            /\ UNCHANGED <<isRecording, mediaRecorderRef, animationFrameRef, silenceStartRef,
                           restartTimers, playVars>>
    /\ UNCHANGED <<mounted, isOpen, isConnected, isHandsFree, messages, inputText, sendVars,
                   audioContextRef, analyserRef>>

\* getUserMedia of session s resolves and startRecording runs on to its end.
\* avg is the energy the first call of draw samples; recOk tells whether
\* new MediaRecorder(stream, {mimeType: 'audio/webm'}) succeeds.
GetUserMediaResolves(s, avg, recOk) ==
    /\ sessions[s].st = "acquiring"
    /\ audioContextRef' = s
    /\ analyserRef' = s
    /\ LET cl == sessions[s].cl
           w0 == [W EXCEPT !.sess[s].st = "live", !.sess[s].stream = TRUE,
                           !.sess[s].ctx = TRUE]
           \* drawVisualizer: the canvas exists while the panel is shown
           w1 == IF mounted /\ isOpen THEN draw(w0, s, avg, isHandsFree, ReadyState(CN)) ELSE w0
           ok == recOk /\ ~w1.thrown
           w2 == IF ok
                 THEN [w1 EXCEPT !.recRef = s, !.sess[s].rec = "recording", !.isRec = TRUE]
                 ELSE w1
       IN /\ SetW(w2)
          /\ messages' = Kept(messages, addMessage(messages, "system",
                                                  IF ok THEN ListeningText(cl)
                                                  ELSE <<"Error accessing microphone">>))
    /\ UNCHANGED <<mounted, isOpen, isConnected, isHandsFree, inputText, websocketRef, sockets,
                   sendVars>>

\* The catch block of startRecording trying once more on its own.
GetUserMediaRejectsRetrying(s) ==
    /\ sessions[s].st = "acquiring"
    /\ Len(sessions) < MaxSessions
    /\ sessions' = Append([sessions EXCEPT ![s].st = "denied"], NewSession(sessions[s].cl))
    /\ messages' = Kept(messages, addMessage(messages, "system",
                                              <<"Error accessing microphone">>))
    /\ UNCHANGED <<mounted, isOpen, isRecording, isConnected, isHandsFree, inputText,
                   websocketRef, sockets, sendVars, playVars,
                   mediaRecorderRef, audioContextRef, analyserRef, animationFrameRef,
                   silenceStartRef, restartTimers, turn>>

\* getUserMedia of session s rejects: the catch block of startRecording.
GetUserMediaRejects(s) ==
    /\ sessions[s].st = "acquiring"
    /\ sessions' = [sessions EXCEPT ![s].st = "denied"]
    /\ messages' = Kept(messages, addMessage(messages, "system",
                                              <<"Error accessing microphone">>))
    /\ UNCHANGED <<mounted, isOpen, isRecording, isConnected, isHandsFree, inputText,
                   websocketRef, sockets, sendVars, playVars,
                   mediaRecorderRef, audioContextRef, analyserRef, animationFrameRef,
                   silenceStartRef, restartTimers, turn>>

\* mediaRecorder.ondataavailable of session s, on the 100ms cadence, with data.
DataAvailable(s) ==
    /\ sessions[s].rec = "recording"
    /\ sessions[s].chunks < MaxChunks
    /\ sessions' = [sessions EXCEPT ![s].chunks = @ + 1]
    /\ UNCHANGED <<mounted, isOpen, isRecording, isConnected, isHandsFree, messages, inputText,
                   websocketRef, sockets, sendVars, playVars,
                   mediaRecorderRef, audioContextRef, analyserRef, animationFrameRef,
                   silenceStartRef, restartTimers, turn>>

\* mediaRecorder.onstop building its blob from one array of chunks that all
\* the sessions push to.
RecorderOnStopShared(s) ==
    /\ sessions[s].rec = "stopping"
    /\ sessions' = IF ReadyState(CN) = "OPEN" /\ \E r \in Sessions : sessions[r].chunks > 0
                   THEN [r \in Sessions |->
                           IF r = s THEN [sessions[r] EXCEPT !.rec = "inactive", !.chunks = 0,
                                                             !.sent = @ + 1]
                           ELSE [sessions[r] EXCEPT !.chunks = 0]]
                   ELSE [sessions EXCEPT ![s].rec = "inactive"]
    /\ UNCHANGED <<mounted, isOpen, isRecording, isConnected, isHandsFree, messages, inputText,
                   websocketRef, sockets, sendVars, playVars,
                   mediaRecorderRef, audioContextRef, analyserRef, animationFrameRef,
                   silenceStartRef, restartTimers, turn>>

\* mediaRecorder.onstop flushing without a look at the connection.
RecorderOnStopUnguarded(s) ==
    /\ sessions[s].rec = "stopping"
    /\ sessions' = IF sessions[s].chunks > 0
                   THEN [sessions EXCEPT ![s].rec = "inactive", ![s].chunks = 0,
                                         ![s].sent = @ + 1]
                   ELSE [sessions EXCEPT ![s].rec = "inactive"]
    /\ UNCHANGED <<mounted, isOpen, isRecording, isConnected, isHandsFree, messages, inputText,
                   websocketRef, sockets, sendVars, playVars,
                   mediaRecorderRef, audioContextRef, analyserRef, animationFrameRef,
                   silenceStartRef, restartTimers, turn>>

\* mediaRecorder.onstop of session s: the flush of its buffer.
RecorderOnStop(s) ==
    /\ sessions[s].rec = "stopping"
    /\ sessions' = IF ReadyState(CN) = "OPEN" /\ sessions[s].chunks > 0
                   THEN [sessions EXCEPT ![s].rec = "inactive", ![s].chunks = 0,
                                         ![s].sent = @ + 1]
                   ELSE [sessions EXCEPT ![s].rec = "inactive"]
    /\ UNCHANGED <<mounted, isOpen, isRecording, isConnected, isHandsFree, messages, inputText,
                   websocketRef, sockets, sendVars, playVars,
                   mediaRecorderRef, audioContextRef, analyserRef, animationFrameRef,
                   silenceStartRef, restartTimers, turn>>

\* The animation frame of the draw loop of session s fires.
Draw(s, avg) ==
    /\ sessions[s].loop
    /\ SetW(draw(W, s, avg, isHandsFree, ReadyState(CN)))
    /\ UNCHANGED <<mounted, isOpen, isConnected, isHandsFree, messages, inputText,
                   websocketRef, sockets, sendVars, audioContextRef, analyserRef>>

\* The clock advances by ClockStep.
ClockAdvance ==
    /\ Older(silenceStartRef) # silenceStartRef \/ Older(turn.quiet) # turn.quiet
    /\ silenceStartRef' = Older(silenceStartRef)
    /\ turn' = [turn EXCEPT !.quiet = Older(@)]
    /\ UNCHANGED <<mounted, isOpen, isRecording, isConnected, isHandsFree, messages, inputText,
                   websocketRef, sockets, sendVars, playVars,
                   mediaRecorderRef, audioContextRef, analyserRef, animationFrameRef,
                   sessions, restartTimers>>

\* The 100ms timer i set by the silence branch fires: startRecording of the
\* render whose draw set it.
RestartFires(i) ==
    /\ i \in DOMAIN restartTimers
    /\ LET r == startRecording(CN, sessions, restartTimers[i]) IN
       /\ Len(sessions) < MaxSessions
       /\ Len(r.cn.socks) <= MaxSockets
       /\ SetCN(r.cn)
       /\ sessions' = r.sess
    /\ restartTimers' = [j \in 1..(Len(restartTimers) - 1) |->
                            IF j < i THEN restartTimers[j] ELSE restartTimers[j + 1]]
    /\ turn' = [turn EXCEPT !.restarts = Sat(@)]
    /\ UNCHANGED <<mounted, isOpen, isRecording, isConnected, isHandsFree, messages, inputText,
                   sendVars, playVars, mediaRecorderRef, audioContextRef, analyserRef,
                   animationFrameRef, silenceStartRef>>

\* ---- playback events
notPlayback == <<mounted, isOpen, isRecording, isConnected, isHandsFree, messages, inputText,
                 websocketRef, sockets, sendVars, capVars>>

\* The play() promise of clip c resolves: playback has begun.
PlayResolves(c) ==
    /\ audioEl[c] = "starting"
    /\ audioEl' = [audioEl EXCEPT ![c] = "playing"]
    /\ UNCHANGED <<audioQueueRef, isPlayingRef, currentAudioRef, playOrder, stopMark>>
    /\ UNCHANGED notPlayback

\* The play() promise of clip c rejects: playback could not begin, or pause()
\* aborted it.
PlayRejects(c) ==
    /\ audioEl[c] \in {"starting", "aborting"}
    /\ SetPB(playCatch(PB, c))
    /\ UNCHANGED stopMark
    /\ UNCHANGED notPlayback

\* Clip c plays to its end; the element queues its ended event.
ClipReachesEnd(c) ==
    /\ audioEl[c] = "playing"
    /\ audioEl' = [audioEl EXCEPT ![c] = "ending"]
    /\ UNCHANGED <<audioQueueRef, isPlayingRef, currentAudioRef, playOrder, stopMark>>
    /\ UNCHANGED notPlayback

\* audio.onended of clip c.
AudioOnEnded(c) ==
    /\ audioEl[c] = "ending"
    /\ SetPB(audioOnEnded(PB, c))
    /\ UNCHANGED stopMark
    /\ UNCHANGED notPlayback

\* Clip c fails after playback has begun: an error event, which has no handler.
ClipErrors(c) ==
    /\ audioEl[c] = "playing"
    /\ audioEl' = [audioEl EXCEPT ![c] = "errored"]
    /\ UNCHANGED <<audioQueueRef, isPlayingRef, currentAudioRef, playOrder, stopMark>>
    /\ UNCHANGED notPlayback

\* ---- operations called directly
\* playAudioResponse with a clip.
PlayAudioResponse ==
    /\ Len(audioEl) < MaxClips
    /\ SetPB(playAudioResponse(PB))
    /\ UNCHANGED stopMark
    /\ UNCHANGED notPlayback

\* stopAudioPlayback
StopAudioPlayback ==
    /\ SetPB(stopAudioPlayback(PB))
    /\ stopMark' = Len(audioEl)
    /\ UNCHANGED notPlayback

Senders == {"user", "agent", "system"}
AddTexts == {Undefined, <<>>, <<"x">>, <<"y">>}

\* addMessage(sender, text)
AddMessage(sender, text) ==
    /\ lastAdd.n < MaxAdds
    /\ messages' = addMessage(messages, sender, text)
    /\ lastAdd' = [n |-> lastAdd.n + 1, sender |-> sender, text |-> text]
    /\ UNCHANGED <<mounted, isOpen, isRecording, isConnected, isHandsFree, inputText,
                   websocketRef, sockets, nFrames, sendReq, capVars, playVars>>

\* ------------------------------------------------------------ specifications
PlaybackEvents ==
    \/ \E c \in Clips : PlayResolves(c)
    \/ \E c \in Clips : PlayRejects(c)
    \/ \E c \in Clips : ClipReachesEnd(c)
    \/ \E c \in Clips : AudioOnEnded(c)
    \/ \E c \in Clips : ClipErrors(c)

SocketEvents ==
    \/ \E s \in Sockets : WsOnOpen(s)
    \/ \E s \in Sockets : WsClosing(s)
    \/ \E s \in Sockets : WsOnClose(s)

\* The whole widget.
Next ==
    \/ Unmount
    \/ ToggleChat
    \/ CloseChat
    \/ ToggleHandsFree
    \/ \E t \in InputTexts : SetInputText(t)
    \/ SendClick
    \/ \E i \in DOMAIN sendReq : SendRetry(i)
    \/ ToggleRecording
    \/ \E s \in Sessions, avg \in {"loud", "quiet"}, recOk \in BOOLEAN :
          GetUserMediaResolves(s, avg, recOk)
    \/ \E s \in Sessions : GetUserMediaRejects(s)
    \/ \E s \in Sessions : DataAvailable(s)
    \/ \E s \in Sessions : RecorderOnStop(s)
    \/ \E s \in Sessions, avg \in {"loud", "quiet"} : Draw(s, avg)
    \/ ClockAdvance
    \/ \E i \in DOMAIN restartTimers : RestartFires(i)
    \/ SocketEvents
    \/ \E s \in Sockets, f \in Frames : WsOnMessage(s, f)
    \/ PlaybackEvents

Spec == Init /\ [][Next]_vars

\* The Playback Queue driven through its own operations.
NextPlayback ==
    \/ PlayAudioResponse
    \/ StopAudioPlayback
    \/ \E c \in Clips : PlayResolves(c)
    \/ \E c \in Clips : PlayRejects(c)
    \/ \E c \in Clips : ClipReachesEnd(c)
    \/ \E c \in Clips : AudioOnEnded(c)
    \/ \E c \in Clips : ClipErrors(c)

SpecPlayback == Init /\ [][NextPlayback]_vars

\* addMessage driven on its own.
NextTranscript == \E sender \in Senders, text \in AddTexts : AddMessage(sender, text)

SpecTranscript == Init /\ [][NextTranscript]_vars

\* The connection and its inbound dispatch.
NextInbound ==
    \/ ToggleChat
    \/ \E s \in Sockets : WsOnOpen(s)
    \/ \E s \in Sockets : WsClosing(s)
    \/ \E s \in Sockets : WsOnClose(s)
    \/ \E s \in Sockets, f \in Frames : WsOnMessage(s, f)

SpecInbound == Init /\ [][NextInbound]_vars

\* The connection and the text sends.
NextSend ==
    \/ ToggleChat
    \/ CloseChat
    \/ \E t \in InputTexts : SetInputText(t)
    \/ SendClick
    \/ \E i \in DOMAIN sendReq : SendRetry(i)
    \/ \E s \in Sockets : WsOnOpen(s)
    \/ \E s \in Sockets : WsClosing(s)
    \/ \E s \in Sockets : WsOnClose(s)

SpecSend == Init /\ [][NextSend]_vars

\* The retry timers fire: a timer that is set does fire.
FairSend == SpecSend /\ \A i \in 1..MaxSends : WF_vars(SendRetry(i))

\* The connection and the capture sessions, under the user's toggles.
NextCapture ==
    \/ ToggleChat
    \/ CloseChat
    \/ ToggleRecording
    \/ \E s \in Sessions, avg \in {"loud", "quiet"}, recOk \in BOOLEAN :
          GetUserMediaResolves(s, avg, recOk)
    \/ \E s \in Sessions : GetUserMediaRejects(s)
    \/ \E s \in Sessions : DataAvailable(s)
    \/ \E s \in Sessions : RecorderOnStop(s)
    \/ \E s \in Sessions, avg \in {"loud", "quiet"} : Draw(s, avg)
    \/ \E s \in Sockets : WsOnOpen(s)
    \/ \E s \in Sockets : WsClosing(s)
    \/ \E s \in Sockets : WsOnClose(s)

SpecCapture == Init /\ [][NextCapture]_vars

\* The capture sessions and their flush: the user's toggles, acquisitions
\* that succeed, the recorder's events, and the socket opening and closing.
NextFlush ==
    \/ ToggleChat
    \/ ToggleRecording
    \/ \E s \in Sessions, avg \in {"loud", "quiet"} : GetUserMediaResolves(s, avg, TRUE)
    \/ \E s \in Sessions : DataAvailable(s)
    \/ \E s \in Sessions : RecorderOnStop(s)
    \/ \E s \in Sockets : WsOnOpen(s)
    \/ \E s \in Sockets : WsOnClose(s)

SpecFlush == Init /\ [][NextFlush]_vars

\* The widget over its whole life with a text send and a capture in it: the
\* user's actions, acquisitions that succeed, the socket's events, the retry
\* timers, and the disposal.
NextDispose ==
    \/ ToggleChat
    \/ \E t \in InputTexts : SetInputText(t)
    \/ SendClick
    \/ \E i \in DOMAIN sendReq : SendRetry(i)
    \/ ToggleRecording
    \/ \E s \in Sessions, avg \in {"loud", "quiet"} : GetUserMediaResolves(s, avg, TRUE)
    \/ \E s \in Sockets : WsOnOpen(s)
    \/ \E s \in Sockets : WsOnClose(s)
    \/ Unmount

SpecDispose == Init /\ [][NextDispose]_vars

\* The acquisition of the microphone and its outcomes.
NextAcquire ==
    \/ ToggleChat
    \/ ToggleRecording
    \/ \E s \in Sessions, avg \in {"loud", "quiet"} : GetUserMediaResolves(s, avg, TRUE)
    \/ \E s \in Sessions : GetUserMediaRejects(s)
    \/ \E s \in Sockets : WsOnOpen(s)
    \/ \E s \in Sockets : WsOnClose(s)

SpecAcquire == Init /\ [][NextAcquire]_vars

\* The capture sessions from acquisition to flush, and the disposal, whose
\* cleanup calls stopRecording.
NextStop ==
    \/ NextAcquire
    \/ \E s \in Sessions : RecorderOnStop(s)
    \/ Unmount

SpecStop == Init /\ [][NextStop]_vars

\* The sampling ticks of a capture under the hands-free switch, with clips
\* arriving.
NextTick ==
    \/ ToggleChat
    \/ ToggleHandsFree
    \/ ToggleRecording
    \/ \E s \in Sessions, avg \in {"loud", "quiet"} : GetUserMediaResolves(s, avg, TRUE)
    \/ \E s \in Sessions, avg \in {"loud", "quiet"} : Draw(s, avg)
    \/ \E s \in Sockets : WsOnOpen(s)
    \/ \E s \in Sockets : WsOnMessage(s, [kind |-> "blob"])

SpecTick == Init /\ [][NextTick]_vars

\* The sampling ticks of a capture under the hands-free switch, and the clock.
NextSilence ==
    \/ ToggleChat
    \/ ToggleHandsFree
    \/ ToggleRecording
    \/ \E s \in Sessions, avg \in {"loud", "quiet"} : GetUserMediaResolves(s, avg, TRUE)
    \/ \E s \in Sessions, avg \in {"loud", "quiet"} : Draw(s, avg)
    \/ ClockAdvance

SpecSilence == Init /\ [][NextSilence]_vars

\* The sampling ticks and the clock, with sessions started after a manual
\* stop and after the close event of the connection.
NextCarry ==
    \/ NextSilence
    \/ \E s \in Sockets : WsOnClose(s)

SpecCarry == Init /\ [][NextCarry]_vars

\* The buffers of the capture sessions and their flush, on a connection that
\* is opening or open.
NextBlob ==
    \/ ToggleChat
    \/ ToggleRecording
    \/ \E s \in Sessions, avg \in {"loud", "quiet"} : GetUserMediaResolves(s, avg, TRUE)
    \/ \E s \in Sessions : DataAvailable(s)
    \/ \E s \in Sessions : RecorderOnStop(s)
    \/ \E s \in Sockets : WsOnOpen(s)

SpecBlob == Init /\ [][NextBlob]_vars

\* Hands-free turn-taking: a capture session, its sampling loop, the clock,
\* and the clips a barge-in would interrupt.
NextTurn ==
    \/ ToggleChat
    \/ ToggleHandsFree
    \/ ToggleRecording
    \/ \E s \in Sessions, avg \in {"loud", "quiet"}, recOk \in BOOLEAN :
          GetUserMediaResolves(s, avg, recOk)
    \/ \E s \in Sessions, avg \in {"loud", "quiet"} : Draw(s, avg)
    \/ ClockAdvance
    \/ \E s \in Sockets : WsOnOpen(s)
    \/ \E s \in Sockets : WsOnMessage(s, [kind |-> "blob"])
    \/ \E c \in Clips : PlayResolves(c)

SpecTurn == Init /\ [][NextTurn]_vars

\* Hands-free turn-taking while the connection may go away.
NextBargeIn ==
    \/ NextTurn
    \/ \E s \in Sockets : WsClosing(s)

SpecBargeIn == Init /\ [][NextBargeIn]_vars

\* ------------------------------------------------------------------ claims
\* The clips started and neither completed, failed nor interrupted.
Sounding == {c \in Clips : audioEl[c] \in {"starting", "playing"}}

\* C1: at most one clip is playing in every reachable state of the Playback
\* Queue, under any interleaving of enqueue, completion, start failure and
\* stopAll.
C1_AtMostOnePlaying == Cardinality(Sounding) <= 1

\* C2: clips begin playback in the order in which they were enqueued; clips
\* are numbered in the order of their enqueue.
C2_Fifo == \A i, j \in DOMAIN playOrder : i < j => playOrder[i] < playOrder[j]

\* Two clips have started in turn, a third waits, and no stopAll intervened.
C2_Witness == stopMark = -1 /\ playOrder = <<1, 2>> /\ audioQueueRef = <<3>>

\* C3: after stopAll no clip enqueued before it is playing, and of the clips
\* enqueued after it at most one is playing, whatever callbacks of the
\* interrupted clip arrive.
C3_OnlyNewClipAfterStop ==
    stopMark >= 0 =>
        /\ \A c \in Sounding : c > stopMark
        /\ Cardinality(Sounding) <= 1

\* The capture sessions in being: a live device stream with its recorder recording.
Capturing == {s \in Sessions : sessions[s].stream /\ sessions[s].rec = "recording"}

\* C4: at most one capture session (a live device stream with its encoder)
\* exists at any time.
C4_OneCaptureSession == Cardinality(Capturing) <= 1

\* C5: in hands-free mode with an active capture, energy above the threshold
\* and then at or below it for the silence window triggers exactly one capture
\* stop followed by exactly one restart.  turn.overdue tells that a tick has
\* sampled silence that had by then lasted longer than SilenceMs.
C5_OneStopOneRestart ==
    turn.overdue => /\ turn.vadStops = 1
                    /\ Len(restartTimers) + turn.restarts = 1

\* C6: in hands-free mode with an active capture, each sample above the
\* threshold taken while the Playback Queue is non-empty or playing (a barge-in
\* onset) issues exactly one stopAll and exactly one interrupt frame.
C6_OneInterruptPerOnset ==
    /\ turn.stopAlls = turn.onsets
    /\ turn.interrupts = turn.onsets

\* The transcript next is prev with text added under sender: as a new last
\* entry, or joined by one space to a last entry of the same sender.
Gained(prev, next, sender, text) ==
    \/ next = Append(prev, [sender |-> sender, text |-> text])
    \/ /\ Len(prev) > 0
       /\ prev[Len(prev)].sender = sender
       /\ next = [prev EXCEPT ![Len(prev)].text = Str(@) \o <<SP>> \o Str(text)]

Undelivered(i) == i \in DOMAIN sendReq /\ sendReq[i].sent = 0
Delivered(i) == i \in DOMAIN sendReq /\ sendReq[i].sent = 1

\* C7: a text send requested while the connection is not open is retried (its
\* timer stays set while it is undelivered) and is delivered once the retry
\* finds the connection open; no request is delivered twice.
C7_RetriedAndDeliveredOnce ==
    /\ [](\A i \in DOMAIN sendReq :
            /\ sendReq[i].sent <= 1
            /\ sendReq[i].timer <=> sendReq[i].sent = 0)
    /\ \A i \in 1..MaxSends :
         (Undelivered(i) /\ ReadyState(CN) = "OPEN")
            ~> (Delivered(i) \/ ReadyState(CN) # "OPEN")

\* A request that had to wait for the connection has been delivered.
C7_Witness == \E i \in DOMAIN sendReq : sendReq[i].waited /\ sendReq[i].sent = 1

\* C8: a text message appears in the transcript exactly once and immediately
\* when the send is requested, whether or not the connection is open.
C8_EchoedAtRequest == \A i \in DOMAIN sendReq : sendReq[i].echo = 1

\* C8, amended: the message is added to the transcript exactly when its frame
\* is sent, so not before and at most once.
C8_EchoedOnDelivery ==
    \A i \in DOMAIN sendReq : sendReq[i].echo = sendReq[i].sent /\ sendReq[i].echo <= 1

\* One request waits unechoed while another that waited is echoed and delivered.
C8_Witness ==
    /\ \E i \in DOMAIN sendReq : sendReq[i].waited /\ sendReq[i].echo = 0
    /\ \E i \in DOMAIN sendReq : sendReq[i].waited /\ sendReq[i].echo = 1
    /\ \E k \in DOMAIN messages : messages[k].sender = "user"

\* C9: addMessage merges exactly when the last entry has the same sender and
\* that sender is not system; a merge joins the texts with one space and an
\* append adds the message as given; the entries before the last stay.
C9_MergeRule ==
    [][lastAdd'.n = lastAdd.n + 1 =>
        LET n == Len(messages)
            sender == lastAdd'.sender
            text == lastAdd'.text
            same == n > 0 /\ messages[n].sender = sender /\ sender # "system"
        IN /\ Len(messages') = n <=> same
           /\ Len(messages') = n \/ Len(messages') = n + 1
           /\ \A k \in 1..(n - 1) : messages'[k] = messages[k]
           /\ same => messages'[n] = [sender |-> sender,
                                      text |-> Str(messages[n].text) \o <<SP>> \o Str(text)]
           /\ ~same => /\ messages'[n + 1] = [sender |-> sender, text |-> text]
                       /\ n > 0 => messages'[n] = messages[n]]_vars

\* Two agent messages merged, then a system message, then an agent message apart.
C9_Witness ==
    /\ Len(messages) = 3
    /\ messages[1] = [sender |-> "agent", text |-> <<"x", SP, "y">>]
    /\ messages[2].sender = "system"
    /\ messages[3].sender = "agent"

\* The sender the claim gives for a type.
SenderFor(type) == IF type = "transcript" THEN "user" ELSE "agent"

RawFrame == [kind |-> "raw"]

\* The transcript shows the payload of a frame that was not JSON.
RawSeen ==
    \E k \in DOMAIN messages :
        messages[k].sender = "agent" /\ Payload(RawFrame)[1] \in Range(messages[k].text)

\* C11: an inbound textual frame that is not JSON adds its raw payload as an
\* agent message and touches neither the socket nor the Playback Queue; the
\* handler stays in place, so that frames dispatched after it are handled as
\* ever: a binary frame is enqueued as a clip, a transcript frame adds a user
\* message.
C11_RawPayloadAsAgent ==
    [][\A s \in Sockets :
         /\ WsOnMessage(s, RawFrame) =>
               /\ Gained(messages, messages', "agent", Payload(RawFrame))
               /\ UNCHANGED <<websocketRef, sockets, isConnected, pbVars>>
         /\ (RawSeen /\ WsOnMessage(s, [kind |-> "blob"])) =>
               /\ Len(audioEl') = Len(audioEl) + 1
               /\ messages' = messages
         /\ \A f \in JsonFrames :
              (RawSeen /\ WsOnMessage(s, f) /\ f.type = "transcript" /\ f.audio # "notb64")
                 => Gained(messages, messages', "user", f.text)]_vars

\* A frame that was not JSON was shown, and the transcript frame after it too.
C11_Witness ==
    /\ RawSeen
    /\ Len(messages) = 3
    /\ messages[2] = [sender |-> "agent", text |-> Payload(RawFrame)]
    /\ messages[3] = [sender |-> "user", text |-> <<"hi">>]

\* The sockets that are open or opening.
LiveSockets == {s \in Sockets : sockets[s] \in {"OPEN", "CONNECTING"}}

\* C12: connectWebSocket on a socket open or opening returns with nothing
\* changed, and calling it twice is calling it once; no step taken while the
\* socket held is open or opening creates a socket or replaces the one held;
\* so at most one socket is open or opening, and it is the one held.
C12_ConnectIdempotent ==
    /\ [](/\ ReadyState(CN) \in {"OPEN", "CONNECTING"} => connectWebSocket(CN) = CN
          /\ connectWebSocket(connectWebSocket(CN)) = connectWebSocket(CN)
          /\ Cardinality(LiveSockets) <= 1
          /\ LiveSockets \subseteq {websocketRef})
    /\ [][ReadyState(CN) \in {"OPEN", "CONNECTING"} =>
             /\ Len(sockets') = Len(sockets)
             /\ websocketRef' = websocketRef]_vars

\* Two send requests called connectWebSocket (their renders had isConnected
\* false) while the first socket was opening; no socket was added, and that
\* socket has opened.
C12_Witness ==
    /\ Len(sockets) = 1
    /\ sockets[1] = "OPEN"
    /\ Len(sendReq) = 2
    /\ \A i \in DOMAIN sendReq : ~sendReq[i].conn
    /\ sendReq[1].waited

\* The recorder of session s goes from stopping to inactive: its flush.
Flushes(s) == sessions[s].rec = "stopping" /\ sessions'[s].rec = "inactive"

\* C13: the flush of a stopped session sends one binary frame exactly when
\* the buffer is not empty and the socket held is open; a session sends
\* nothing at any other moment, so never more than one frame, and a buffer
\* that was not sent at the flush is never sent.
C13_FlushOnceIfOpen ==
    /\ [](\A s \in Sessions : sessions[s].sent <= 1)
    /\ [][\A s \in Sessions :
            /\ Flushes(s) =>
                 (sessions'[s].sent = sessions[s].sent + 1
                    <=> (sessions[s].chunks > 0 /\ ReadyState(CN) = "OPEN"))
            /\ sessions'[s].sent # sessions[s].sent =>
                 Flushes(s) /\ sessions'[s].sent = sessions[s].sent + 1
            /\ sessions[s].rec = "inactive" =>
                 sessions'[s].rec = "inactive" /\ sessions'[s].sent = sessions[s].sent]_vars

\* One session's utterance was sent at its flush; another's, flushed while the
\* socket was not open, was dropped though the socket has opened since.
C13_Witness ==
    /\ \E s \in Sessions : sessions[s].rec = "inactive" /\ sessions[s].sent = 1
    /\ \E s \in Sessions : /\ sessions[s].rec = "inactive"
                           /\ sessions[s].sent = 0
                           /\ sessions[s].chunks > 0
    /\ ReadyState(CN) = "OPEN"

\* No capture is under way: the recording state is false, no session is
\* acquiring the microphone, and none has a live stream with a recorder.
NoCapture ==
    /\ ~isRecording
    /\ Capturing = {}
    /\ \A s \in Sessions : sessions[s].st # "acquiring" /\ sessions[s].rec # "recording"

\* The sessions with a frame of their draw loop scheduled.
Looping == {s \in Sessions : sessions[s].loop}

\* C14: while no capture is under way no draw loop is scheduled and no
\* device stream or AudioContext of an earlier session is live; and at most
\* one draw loop is scheduled at any time.
C14_StopReleasesAll ==
    /\ NoCapture => \A s \in Sessions :
                        ~sessions[s].loop /\ ~sessions[s].stream /\ ~sessions[s].ctx
    /\ Cardinality(Looping) <= 1

\* C15: once the widget is disposed no capture session is in being, no socket
\* is open or opening and no draw loop is scheduled; and from then on no
\* socket is created, no capture is started and no clip is played.
C15_DisposalEndsAll ==
    /\ [](~mounted => Capturing = {} /\ LiveSockets = {} /\ Looping = {})
    /\ [][~mounted => /\ Len(sockets') = Len(sockets)
                      /\ Len(sessions') = Len(sessions)
                      /\ Len(playOrder') = Len(playOrder)]_vars

\* The clips whose playback is under way: started, and neither failed nor
\* interrupted, the ended event not yet handled.
Underway == {c \in Clips : audioEl[c] \in {"starting", "playing", "ending"}}

\* C16: the only object URL not released is that of the clip whose playback
\* is under way, so there is never more than one.
C16_UrlsReleased ==
    /\ ObjectUrls \subseteq Underway
    /\ Cardinality(ObjectUrls) <= 1

\* C17: a clip that failed, when its playback was started or after it had
\* begun, does not hold the Playback Queue: if the clip started last has
\* failed, the busy flag is released and no clip is left pending (the next
\* one would have been started).
C17_FailureNeverStalls ==
    (Len(playOrder) > 0 /\ audioEl[playOrder[Len(playOrder)]] \in {"failed", "errored"})
        => ~isPlayingRef /\ audioQueueRef = <<>>

\* A loud sample of the loop of session s would now be a barge-in: hands-free
\* mode, the capture started in that mode and recording, and the Playback
\* Queue non-empty or busy.
OnsetNow(s) ==
    /\ isHandsFree /\ isRecording
    /\ sessions[s].cl.isHandsFree /\ sessions[s].rec = "recording"
    /\ Len(audioQueueRef) > 0 \/ isPlayingRef

\* C18: a barge-in while the socket held is not open (none, connecting,
\* closing or closed) still stops all playback, and the tick completes: the
\* Playback Queue is empty and idle after it and the loop goes on.
C18_BargeInWithoutConnection ==
    [][\A s \in Sessions :
         (Draw(s, "loud") /\ OnsetNow(s) /\ ReadyState(CN) # "OPEN")
            => /\ audioQueueRef' = <<>>
               /\ ~isPlayingRef'
               /\ currentAudioRef' = 0
               /\ sessions'[s].loop]_vars

\* C19: the close event of a socket changes nothing of the capture (sessions
\* with their stream, recorder and loop, the refs to them, the recording
\* state) nor of the Playback Queue.
C19_CloseLeavesCaptureAndPlayback ==
    [][\A s \in Sockets :
         WsOnClose(s) => UNCHANGED <<sessions, mediaRecorderRef, audioContextRef,
                                     analyserRef, animationFrameRef, isRecording,
                                     pbVars>>]_vars

MicError == [sender |-> "system", text |-> <<"Error accessing microphone">>]

\* The acquisition of session s fails in this step.
Denied(s) == sessions[s].st = "acquiring" /\ sessions'[s].st = "denied"

\* C20: when getUserMedia rejects, one system message reporting the error is
\* appended, the recording state is left as it was, the session gets no
\* stream, recorder, AudioContext or loop, and no further acquisition is
\* started or scheduled; an acquisition starts only in a click on the
\* microphone button.
C20_AcquisitionFailure ==
    [][/\ \A s \in Sessions :
            Denied(s) =>
               /\ messages' = Append(messages, MicError)
               /\ isRecording' = isRecording
               /\ ~sessions'[s].stream /\ ~sessions'[s].ctx /\ ~sessions'[s].loop
               /\ sessions'[s].rec = "none"
               /\ Len(sessions') = Len(sessions)
               /\ UNCHANGED <<restartTimers, mediaRecorderRef, animationFrameRef>>
       /\ Len(sessions') > Len(sessions) => ToggleRecording]_vars

\* An acquisition has failed: the error is the last message, nothing records
\* and no other acquisition is under way.
C20_Witness ==
    /\ \E s \in Sessions : sessions[s].st = "denied"
    /\ \A s \in Sessions : sessions[s].st = "denied"
    /\ messages # <<>> /\ messages[Len(messages)] = MicError
    /\ ~isRecording

C22_NoTurnTakingWhenOff ==
    [][\A s \in Sessions, avg \in {"loud", "quiet"} :
         (Draw(s, avg) /\ ~isHandsFree) =>
            /\ UNCHANGED <<pbVars, stopMark, silenceStartRef, restartTimers,
                           isRecording, mediaRecorderRef>>
            /\ turn'.stopAlls = turn.stopAlls /\ turn'.interrupts = turn.interrupts
            /\ Len(sessions') = Len(sessions)
            /\ \A x \in Sessions : /\ sessions'[x].rec = sessions[x].rec
                                   /\ sessions'[x].stream = sessions[x].stream]_vars

\* Hands-free mode was turned off after a loud sample taken during playback,
\* and a tick has been taken since (it forgot the speech heard): the capture
\* records and the clip still plays.
C22_Witness ==
    /\ ~isHandsFree
    /\ turn.onsets > 0 /\ ~turn.heard
    /\ isRecording /\ Capturing # {}
    /\ isPlayingRef /\ Sounding # {}

\* C23: a socket is created only in a step that is a user action: opening
\* the panel, requesting a text send, starting a recording.
C23_ConnectOnUserActionOnly ==
    [][Len(sockets') > Len(sockets) => (ToggleChat \/ SendClick \/ ToggleRecording)]_vars

\* C24: a send request schedules at most one retry: when the retry of a
\* request has fired, no timer is left for that request, delivered or not.
C24_RetriedOnce ==
    [][\A i \in DOMAIN sendReq : SendRetry(i) => ~sendReq'[i].timer]_vars

\* The send requests whose retry timer is set.
Retrying == {i \in DOMAIN sendReq : sendReq[i].timer}

\* C25: of the text sends requested while the socket was not open at most
\* one has a retry outstanding, and at most one of them is ever delivered.
C25_OnlyLatestRetried ==
    /\ Cardinality(Retrying) <= 1
    /\ Cardinality({i \in DOMAIN sendReq : sendReq[i].waited /\ sendReq[i].sent > 0}) <= 1

\* The transcript next keeps what prev holds, in place: every entry but the
\* last as it is, the last as it is or with text joined at its end.
Extends(prev, next) ==
    /\ Len(next) >= Len(prev)
    /\ \A k \in 1..(Len(prev) - 1) : next[k] = prev[k]
    /\ Len(prev) > 0 =>
          /\ next[Len(prev)].sender = prev[Len(prev)].sender
          /\ LET old == Str(prev[Len(prev)].text)
                 new == next[Len(prev)].text
             IN new = prev[Len(prev)].text
                \/ (Len(new) > Len(old) /\ SubSeq(new, 1, Len(old)) = old)

ConnectedMsg == [sender |-> "system", text |-> <<"Connected to Banking Assistant">>]
DisconnectedMsg == [sender |-> "system", text |-> <<"Disconnected">>]

\* The frames of text sent so far.
TextFramesSent(reqs) ==
    Cardinality({i \in DOMAIN reqs : reqs[i].sent > 0})

\* C27: the open of a socket appends one system message and sets isConnected;
\* the close of a socket, after an open or after a failed attempt, appends
\* one system message and clears isConnected; and a text frame is sent only
\* on an open socket, where send cannot throw.
C27_OpenAndCloseReported ==
    [][/\ \A s \in Sockets :
            /\ WsOnOpen(s) => messages' = Append(messages, ConnectedMsg) /\ isConnected'
            /\ WsOnClose(s) => messages' = Append(messages, DisconnectedMsg) /\ ~isConnected'
       /\ TextFramesSent(sendReq') > TextFramesSent(sendReq) => ReadyState(CN') = "OPEN"]_vars

\* A connection was opened and closed, and an attempt after it failed.
C27_Witness ==
    /\ messages = <<ConnectedMsg, DisconnectedMsg, DisconnectedMsg>>
    /\ sockets = <<"CLOSED", "CLOSED">>
    /\ ~isConnected

\* C28: a JSON frame without a text field leaves the transcript as it is,
\* whatever its type and whether or not it carries audio (a base64 string);
\* a JSON frame that changes the transcript adds its own text to it.
C28_NoTextNoEntry ==
    [][\A s \in Sockets, f \in JsonFrames :
         (WsOnMessage(s, f) /\ f.audio # "notb64") =>
            /\ f.text = Undefined => messages' = messages
            /\ messages' # messages =>
                  \E sender \in {"user", "agent"} :
                      Gained(messages, messages', sender, f.text)]_vars

\* Session s captures in hands-free mode: the mode is on, and the session was
\* started in it and records.
HandsFreeCapture(s) ==
    /\ isHandsFree /\ isRecording
    /\ sessions[s].cl.isHandsFree /\ sessions[s].rec = "recording"

C30_RefsCleared ==
    [][StopAudioPlayback =>
          audioQueueRef' = <<>> /\ currentAudioRef' = 0 /\ ~isPlayingRef']_vars

\* C30: when stopAll returns the pending queue is empty, no clip is current,
\* no clip is playing and the busy flag is false, whatever the state of the
\* Playback Queue was before.
C30_StopAllHalts ==
    [][StopAudioPlayback =>
          /\ audioQueueRef' = <<>> /\ currentAudioRef' = 0 /\ ~isPlayingRef'
          /\ Sounding' = {}]_vars

\* C31: the busy flag is true whenever a clip has been started and has
\* neither completed, failed nor been interrupted, whatever late callbacks of
\* an interrupted clip arrive.
C31_BusyWhilePlaying == Sounding # {} => isPlayingRef

\* C32: while the recording state is false no session has a live device
\* stream, a recording encoder or a scheduled frame of its draw loop.
C32_FlagAgreesWithCapture ==
    ~isRecording =>
        \A s \in Sessions :
            ~sessions[s].stream /\ sessions[s].rec # "recording" /\ ~sessions[s].loop

\* A capture session starts: startRecording is called, or the recorder of
\* session s begins to record.
SessionStarts ==
    \/ Len(sessions') > Len(sessions)
    \/ \E s \in Sessions : sessions[s].rec = "none" /\ sessions'[s].rec = "recording"

C34_ManualStopFinal ==
    [][(turn.off /\ turn'.off) => ~SessionStarts]_vars

\* C35: the connected state agrees with the socket held: it is true when
\* that socket is open, and when it is true that socket is open or in its
\* closing handshake, whatever events of replaced sockets arrive.
C35_FlagAgreesWithSocket ==
    /\ ReadyState(CN) = "OPEN" => isConnected
    /\ isConnected => ReadyState(CN) \in {"OPEN", "CLOSING"}

\* C36: the transcript never holds two adjacent entries of the same sender
\* other than system; and a call of addMessage never shortens it and leaves
\* every entry but the last as it is, in place.
C36_TranscriptShape ==
    /\ [](\A i \in 1..(Len(messages) - 1) :
             messages[i].sender = messages[i + 1].sender => messages[i].sender = "system")
    /\ [][/\ Len(messages') >= Len(messages)
          /\ \A i \in 1..(Len(messages) - 1) : messages'[i] = messages[i]]_vars

\* Two system entries stand side by side, and the last entry, of the user,
\* has taken in a second call: four calls made three entries.
C36_Witness ==
    /\ Len(messages) = 3 /\ lastAdd.n = 4
    /\ messages[1].sender = "system" /\ messages[2].sender = "system"
    /\ messages[3].sender = "user" /\ lastAdd.sender = "user"

\* C37: the blob that the flush of a session sends is made of that session's
\* frames alone, which leave its buffer with it; the frames and the blobs of
\* every other session are as they were; and a session whose blob was sent
\* holds no frame that a later blob could carry.
C37_FramesStayInTheirTurn ==
    /\ [](\A s \in Sessions : sessions[s].sent > 0 => sessions[s].chunks = 0)
    /\ [][\A s \in Sessions :
            Flushes(s) =>
               /\ sessions'[s].sent > sessions[s].sent => sessions'[s].chunks = 0
               /\ \A r \in Sessions \ {s} :
                     /\ sessions'[r].chunks = sessions[r].chunks
                     /\ sessions'[r].sent = sessions[r].sent]_vars

\* The blob of the first session was sent while the second session, started
\* next to it, is recording and holds a frame of its own.
C37_Witness ==
    /\ Len(sessions) = 2
    /\ sessions[1].rec = "inactive" /\ sessions[1].sent = 1
    /\ sessions[2].rec = "recording" /\ sessions[2].chunks > 0 /\ sessions[2].sent = 0

====
